---- MODULE Spec2Model ----
(***************************************************************************)
(* A state-machine model of the LC-3 virtual machine of src/main.c: the    *)
(* start-up of main (argument check, image loading, terminal set-up), the  *)
(* fetch/decode/execute loop with one action per opcode handler, the trap  *)
(* routines, the memory-mapped keyboard registers and the SIGINT handler.  *)
(* Words are 16 bits wide; every arithmetic result is reduced modulo 2^16  *)
(* where the C code stores it in a uint16_t.                               *)
(***************************************************************************)
EXTENDS Integers, Sequences, FiniteSets, TLC

(***************************************************************************)
(* Bounds of the model.                                                    *)
(***************************************************************************)
\* words of an image file after its origin word
MaxImageLen == 2
\* instruction cycles of the interpreter loop that a run may execute
MaxSteps == 3
\* characters that may wait unread on standard input
MaxInput == 1

(***************************************************************************)
(* Program constants.                                                      *)
(***************************************************************************)
PC_START == 12288
UINT16_MAX == 65535
R0 == 0
R7 == 7
R_PC == 8
R_COND == 9
R_COUNT == 10
FLG_POS == 1
FLG_ZRO == 2
FLG_NEG == 4
OP_BR == 0
OP_ADD == 1
OP_LD == 2
OP_ST == 3
OP_JSR == 4
OP_AND == 5
OP_LDR == 6
OP_STR == 7
OP_RTI == 8
OP_NOT == 9
OP_LDI == 10
OP_STI == 11
OP_JMP == 12
OP_RES == 13
OP_LEA == 14
OP_TRAP == 15
TRAP_GETC == 32
TRAP_OUT == 33
TRAP_PUTS == 34
TRAP_IN == 35
TRAP_PUTSP == 36
TRAP_HALT == 37
MR_KBSR == 65024
MR_KBDR == 65026
\* what getchar() returns at end of input
EOF == -1

(***************************************************************************)
(* 16-bit words and the C operators on them.                               *)
(***************************************************************************)
Word == 0..65535

RECURSIVE Pow2(_)
Pow2(n) == IF n = 0 THEN 1 ELSE 2 * Pow2(n - 1)

\* the conversion of an int to uint16_t
ToUint16(x) == x % 65536

\* x >> n on a non-negative int
ShiftRight(x, n) == x \div Pow2(n)

\* x << n where the result fits an int
ShiftLeft(x, n) == x * Pow2(n)

\* the low 16 bits of x << n, for n in 0..16: what remains of the shifted int
\* once it is stored in a uint16_t (the bits shifted past bit 15 are dropped)
ShiftLeftLow16(x, n) == (x % Pow2(16 - n)) * Pow2(n)

RECURSIVE BitAnd(_, _)
\* x & y on non-negative ints
BitAnd(x, y) ==
    IF x = 0 \/ y = 0 THEN 0
    ELSE (x % 2) * (y % 2) + 2 * BitAnd(x \div 2, y \div 2)

\* x | y on non-negative ints
BitOr(x, y) == x + y - BitAnd(x, y)

\* ~x stored in a uint16_t
BitNot16(x) == 65535 - x

\* swap16: (x << 8) | (x >> 8), returned as uint16_t
swap16(x) == ToUint16(BitOr(ShiftLeft(x, 8), ShiftRight(x, 8)))

\* sign_extend with the sign read one bit too high (x >> num_bits)
sign_extend_high_bit(x, num_bits) ==
    IF BitAnd(ShiftRight(x, num_bits), 1) # 0
    THEN BitOr(x, ShiftLeftLow16(65535, num_bits))
    ELSE x

\* sign_extend: if bit num_bits-1 of x is set, x |= (0xFFFF << num_bits)
sign_extend(x, num_bits) ==
    IF BitAnd(ShiftRight(x, num_bits - 1), 1) # 0
    THEN BitOr(x, ShiftLeftLow16(65535, num_bits))
    ELSE x

(***************************************************************************)
(* Inputs of a run.                                                        *)
(***************************************************************************)
\* the words an image file may hold (instructions and data), big-endian in the file
ImageWords ==
    { 3585,     \* 0x0E01 BRnzp +1
      4645,     \* 0x1225 ADD R1,R0,#5
      4735,     \* 0x127F ADD R1,R1,#-1
      4673,     \* 0x1241 ADD R1,R1,R1
      21093,    \* 0x5265 AND R1,R1,#5
      21063,    \* 0x5247 AND R1,R1,R7
      37503,    \* 0x927F NOT R1,R1
      8704,     \* 0x2200 LD R1,#0
      41472,    \* 0xA200 LDI R1,#0
      25152,    \* 0x6240 LDR R1,R1,#0
      57344,    \* 0xE000 LEA R0,#0
      12800,    \* 0x3200 ST R1,#0
      45568,    \* 0xB200 STI R1,#0
      29248,    \* 0x7240 STR R1,R1,#0
      49216,    \* 0xC040 JMP R1
      18433,    \* 0x4801 JSR +1
      16448,    \* 0x4040 JSRR R1
      16832,    \* 0x41C0 JSRR R7
      61472,    \* 0xF020 TRAP GETC
      61473,    \* 0xF021 TRAP OUT
      61474,    \* 0xF022 TRAP PUTS
      61475,    \* 0xF023 TRAP IN
      61476,    \* 0xF024 TRAP PUTSP
      61477,    \* 0xF025 TRAP HALT
      65024,    \* 0xFE00 the keyboard-status address as data / TRAP 0x00
      65535,    \* 0xFFFF the highest address as data / TRAP 0xFF
      32768,    \* 0x8000 RTI
      53248 }   \* 0xD000 RES

\* the origins an image file may name besides PC_START, and the words of such a file
OtherOrigins == { PC_START - 1, UINT16_MAX - 1 }
OtherWords == { 4645, 61477 }

\* an image file: its origin word and the words that follow it
ImageFiles ==
    { [origin |-> PC_START, words |-> w, missing |-> FALSE] :
        w \in UNION { [1..n -> ImageWords] : n \in 0..MaxImageLen } }
    \cup
    { [origin |-> o, words |-> w, missing |-> FALSE] :
        o \in OtherOrigins, w \in UNION { [1..n -> OtherWords] : n \in 0..MaxImageLen } }

\* further image files at PC_START: programs that need a third word, or an
\* offset that is not among ImageWords
MoreImages ==
    { << 8705,      \* 0x2201 LD R1,#1
         49216,     \* 0xC040 JMP R1
         65024 >>,  \* 0xFE00 the keyboard-status address: the run fetches from it
      << 8705,      \* 0x2201 LD R1,#1
         49216,     \* 0xC040 JMP R1
         65534 >>,  \* 0xFFFE the origin of HighImage: the run continues there
      << 4645,      \* 0x1225 ADD R1,R0,#5
         1022 >>,   \* 0x03FE BRp -2
      << 25215 >> } \* 0x627F LDR R1,R1,#-1

Programs == { [origin |-> PC_START, words |-> w, missing |-> FALSE] : w \in MoreImages }

\* an image file for the top of memory: 0xE001 LEA R0,#1 at 0xFFFE
HighImage == [origin |-> UINT16_MAX - 1, words |-> << 57345 >>, missing |-> FALSE]

\* a path that fopen cannot open
NoFile == [origin |-> 0, words |-> <<>>, missing |-> TRUE]

\* the image paths of the command line (argv[1..argc-1])
CommandLines ==
    { <<>>, <<NoFile>> }
        \cup { <<f>> : f \in ImageFiles \cup Programs }
        \cup { <<f, NoFile>> : f \in { g \in ImageFiles : g.origin = PC_START /\ Len(g.words) = 1 } }
        \cup { <<f, HighImage>> : f \in Programs }

\* the characters the keyboard may deliver
Chars == { 65, 200 }

\* c_lflag of the terminal: the ICANON and ECHO bits
Cooked == [icanon |-> TRUE, echo |-> TRUE]
ZeroTio == [icanon |-> FALSE, echo |-> FALSE]

(***************************************************************************)
(* State.                                                                  *)
(***************************************************************************)
VARIABLES
    memory,        \* uint16_t memory[UINT16_MAX]: the non-zero cells, by index
    registers,     \* uint16_t registers[R_COUNT]
    adjacent,      \* the build's data layout: registers[0] lies right behind memory[]
    beyond,        \* the two bytes behind memory[] when they are not registers[0]
    running,       \* main's local flag
    instruction,   \* main's local: the word fetched in the last cycle
    pc,            \* where the process is: "main", "signal", "raw", "loop" or ended
    exit_code,     \* the process's exit status once it has ended
    argv,          \* the image paths of the command line
    argi,          \* main's loop index i over argv
    input,         \* characters waiting unread on standard input
    eof,           \* standard input is at end of file
    tio,           \* the terminal's current configuration
    original_tio,  \* struct termios original_tio
    handler,       \* handle_interrupt is installed for SIGINT
    accesses,      \* the memory accesses of the last cycle, in order
    output,        \* the bytes written to standard output by the last cycle
    steps,         \* instruction cycles executed so far
    before,        \* the registers as the last cycle found them, before its fetch
    memory_before, \* memory as the last cycle found it, before its fetch
    consumed,      \* the characters the last cycle took from standard input
    written_before, \* for each address the value last written to it (by an image load, by
                   \* mem_write or by the keyboard poll), as the last cycle found it
    probe          \* a call of sign_extend on its own: arguments and result

vars == << memory, registers, adjacent, beyond, running, instruction, pc,
           exit_code, argv, argi, input, eof, tio, original_tio, handler, accesses,
           output, steps, before, memory_before, consumed, written_before, probe >>

(***************************************************************************)
(* The machine a handler works on: the mutable globals, standard input and *)
(* output, the access log, the value the last call returned, whether       *)
(* standard input was looked at, and whether a read of it blocks.          *)
(***************************************************************************)
Machine ==
    [ mem |-> memory, reg |-> registers, beyond |-> beyond, inp |-> input,
      main_running |-> running, trap_running |-> "null", char_signed |-> TRUE,
      acc |-> <<>>, out |-> <<>>, val |-> 0, polled |-> FALSE, blocked |-> FALSE ]

\* the number of cells of uint16_t memory[UINT16_MAX]: its indices are 0..MemoryCells-1
MemoryCells == UINT16_MAX

\* memory[i] for an index the array holds, and what lies at memory + 65535
Cell(m, i) ==
    IF i < MemoryCells
    THEN IF i \in DOMAIN m.mem THEN m.mem[i] ELSE 0
    ELSE IF adjacent THEN m.reg[R0] ELSE m.beyond

\* memory[i] = v
SetCell(m, i, v) ==
    IF i < MemoryCells
    THEN [m EXCEPT !.mem =
            IF v = 0
            THEN [a \in DOMAIN m.mem \ {i} |-> m.mem[a]]
            ELSE [a \in DOMAIN m.mem \cup {i} |-> IF a = i THEN v ELSE m.mem[a]]]
    ELSE IF adjacent THEN [m EXCEPT !.reg[R0] = v] ELSE [m EXCEPT !.beyond = v]

\* one entry of the access log: the access, and the keyboard cells and standard
\* input before (m0) and after (m1) it
Access(op, index, v, key, m0, m1) ==
    [ op |-> op, index |-> index, val |-> v, key |-> key,
      in0 |-> m0.inp, in1 |-> m1.inp, eof0 |-> eof,
      kbsr1 |-> Cell(m1, MR_KBSR), kbdr0 |-> Cell(m0, MR_KBDR), kbdr1 |-> Cell(m1, MR_KBDR) ]

\* check_key: select() with a zero timeout reports standard input readable,
\* which it is when a character waits and also at end of file
check_key(m) == m.inp # <<>> \/ eof

\* getchar: the next character, EOF at end of file; blocks while neither is there
getchar(m) ==
    IF m.inp # <<>> THEN [m EXCEPT !.val = Head(m.inp), !.inp = Tail(m.inp), !.polled = TRUE]
    ELSE IF eof THEN [m EXCEPT !.val = EOF, !.polled = TRUE]
    ELSE [m EXCEPT !.blocked = TRUE, !.polled = TRUE]

\* mem_write
mem_write(m, address, value) ==
    LET w == SetCell(m, address, value)
    IN  [w EXCEPT !.acc = Append(@, Access("write", address, value, FALSE, m, w))]

\* mem_read returning the cell as it was before the keyboard was polled
mem_read_stale(m, address) ==
    LET key == address = MR_KBSR /\ check_key(m)
        g == getchar(m)
        polled ==
            IF address = MR_KBSR
            THEN IF key
                 THEN SetCell(SetCell(g, MR_KBSR, ShiftLeft(1, 15)), MR_KBDR, ToUint16(g.val))
                 ELSE SetCell([m EXCEPT !.polled = TRUE], MR_KBSR, 0)
            ELSE m
        v == Cell(m, address)
    IN  [polled EXCEPT !.val = v,
                       !.acc = Append(@, Access("read", address, v, key, m, polled))]

\* mem_read calling getchar at MR_KBSR without asking check_key first
mem_read_unchecked(m, address) ==
    LET g == getchar(m)
        polled ==
            IF address = MR_KBSR
            THEN SetCell(SetCell(g, MR_KBSR, ShiftLeft(1, 15)), MR_KBDR, ToUint16(g.val))
            ELSE m
        v == Cell(polled, address)
    IN  [polled EXCEPT !.val = v,
                       !.acc = Append(@, Access("read", address, v, address = MR_KBSR, m, polled))]

\* mem_read: the poll of the keyboard at MR_KBSR, then the load
mem_read(m, address) ==
    LET key == address = MR_KBSR /\ check_key(m)
        g == getchar(m)
        polled ==
            IF address = MR_KBSR
            THEN IF key
                 THEN SetCell(SetCell(g, MR_KBSR, ShiftLeft(1, 15)), MR_KBDR, ToUint16(g.val))
                 ELSE SetCell([m EXCEPT !.polled = TRUE], MR_KBSR, 0)
            ELSE m
        v == Cell(polled, address)
    IN  [polled EXCEPT !.val = v,
                       !.acc = Append(@, Access("read", address, v, key, m, polled))]

(***************************************************************************)
(* The instruction handlers.  Each takes the machine after the fetch and   *)
(* the fetched word, and returns the machine after the handler.            *)
(***************************************************************************)
\* the operand fields of an instruction word
DR(ins) == BitAnd(ShiftRight(ins, 9), 7)
SR1(ins) == BitAnd(ShiftRight(ins, 6), 7)
SR2(ins) == BitAnd(ins, 7)

\* update_flags without the test of bit 15
update_flags_no_negative(m, register_) ==
    IF m.reg[register_] = 0 THEN [m EXCEPT !.reg[R_COND] = FLG_ZRO]
    ELSE [m EXCEPT !.reg[R_COND] = FLG_POS]

\* update_flags
update_flags(m, register_) ==
    IF m.reg[register_] = 0 THEN [m EXCEPT !.reg[R_COND] = FLG_ZRO]
    ELSE IF ShiftRight(m.reg[register_], 15) # 0 THEN [m EXCEPT !.reg[R_COND] = FLG_NEG]
    ELSE [m EXCEPT !.reg[R_COND] = FLG_POS]

\* add with the immediate taken without sign extension
add_unsigned_immediate(m, ins) ==
    LET register0 == DR(ins)
        register1 == SR1(ins)
        immediate_flag == BitAnd(ShiftRight(ins, 5), 1)
        imm5 == BitAnd(ins, 31)
        register2 == SR2(ins)
    IN  update_flags(
            IF immediate_flag # 0
            THEN [m EXCEPT !.reg[register0] = ToUint16(m.reg[register1] + imm5)]
            ELSE [m EXCEPT !.reg[register0] = ToUint16(m.reg[register1] + m.reg[register2])],
            register0)

\* add
add(m, ins) ==
    LET register0 == DR(ins)
        register1 == SR1(ins)
        immediate_flag == BitAnd(ShiftRight(ins, 5), 1)
        imm5 == sign_extend(BitAnd(ins, 31), 5)
        register2 == SR2(ins)
    IN  update_flags(
            IF immediate_flag # 0
            THEN [m EXCEPT !.reg[register0] = ToUint16(m.reg[register1] + imm5)]
            ELSE [m EXCEPT !.reg[register0] = ToUint16(m.reg[register1] + m.reg[register2])],
            register0)

\* and
and(m, ins) ==
    LET register0 == DR(ins)
        register1 == SR1(ins)
        immediate_flag == BitAnd(ShiftRight(ins, 5), 1)
        imm5 == sign_extend(BitAnd(ins, 31), 5)
        register2 == SR2(ins)
    IN  update_flags(
            IF immediate_flag # 0
            THEN [m EXCEPT !.reg[register0] = BitAnd(m.reg[register1], imm5)]
            ELSE [m EXCEPT !.reg[register0] = BitAnd(m.reg[register1], m.reg[register2])],
            register0)

\* not
not(m, ins) ==
    update_flags([m EXCEPT !.reg[DR(ins)] = BitNot16(m.reg[SR1(ins)])], DR(ins))

\* br
br(m, ins) ==
    LET pc_offset == sign_extend(BitAnd(ins, 511), 9)
        cond_flag == BitAnd(ShiftRight(ins, 9), 7)
    IN  IF BitAnd(cond_flag, m.reg[R_COND]) # 0
        THEN [m EXCEPT !.reg[R_PC] = ToUint16(@ + pc_offset)]
        ELSE m

\* jmp
jmp(m, ins) == [m EXCEPT !.reg[R_PC] = m.reg[SR1(ins)]]

\* jsr saving the program counter in R7 after the jump instead of before it
jsr_link_last(m, ins) ==
    LET long_flag == BitAnd(ShiftRight(ins, 11), 1)
        long_pc_offset == sign_extend(BitAnd(ins, 2047), 11)
        jumped == IF long_flag # 0
                  THEN [m EXCEPT !.reg[R_PC] = ToUint16(@ + long_pc_offset)]
                  ELSE [m EXCEPT !.reg[R_PC] = m.reg[SR1(ins)]]
    IN  [jumped EXCEPT !.reg[R7] = jumped.reg[R_PC]]

\* jsr reading the base register before it writes R7
jsr_base_first(m, ins) ==
    LET long_flag == BitAnd(ShiftRight(ins, 11), 1)
        long_pc_offset == sign_extend(BitAnd(ins, 2047), 11)
        target == IF long_flag # 0
                  THEN ToUint16(m.reg[R_PC] + long_pc_offset)
                  ELSE m.reg[SR1(ins)]
    IN  [m EXCEPT !.reg[R7] = m.reg[R_PC], !.reg[R_PC] = target]

\* jsr: R7 is written first, then the program counter
jsr(m, ins) ==
    LET long_flag == BitAnd(ShiftRight(ins, 11), 1)
        saved == [m EXCEPT !.reg[R7] = m.reg[R_PC]]
        long_pc_offset == sign_extend(BitAnd(ins, 2047), 11)
    IN  IF long_flag # 0
        THEN [saved EXCEPT !.reg[R_PC] = ToUint16(@ + long_pc_offset)]
        ELSE [saved EXCEPT !.reg[R_PC] = saved.reg[SR1(ins)]]

\* ld
ld(m, ins) ==
    LET pc_offset == sign_extend(BitAnd(ins, 511), 9)
        r == mem_read(m, ToUint16(m.reg[R_PC] + pc_offset))
    IN  update_flags([r EXCEPT !.reg[DR(ins)] = r.val], DR(ins))

\* ldi without the second read: the pointer itself is loaded
ldi_direct(m, ins) ==
    LET pc_offset == sign_extend(BitAnd(ins, 511), 9)
        r == mem_read(m, ToUint16(m.reg[R_PC] + pc_offset))
    IN  update_flags([r EXCEPT !.reg[DR(ins)] = r.val], DR(ins))

\* ldi
ldi(m, ins) ==
    LET pc_offset == sign_extend(BitAnd(ins, 511), 9)
        p == mem_read(m, ToUint16(m.reg[R_PC] + pc_offset))
        r == mem_read(p, p.val)
    IN  update_flags([r EXCEPT !.reg[DR(ins)] = r.val], DR(ins))

\* ldr
ldr(m, ins) ==
    LET offset == sign_extend(BitAnd(ins, 63), 6)
        r == mem_read(m, ToUint16(m.reg[SR1(ins)] + offset))
    IN  update_flags([r EXCEPT !.reg[DR(ins)] = r.val], DR(ins))

\* lea
lea(m, ins) ==
    LET pc_offset == sign_extend(BitAnd(ins, 511), 9)
    IN  update_flags([m EXCEPT !.reg[DR(ins)] = ToUint16(m.reg[R_PC] + pc_offset)], DR(ins))

\* st
st(m, ins) ==
    LET pc_offset == sign_extend(BitAnd(ins, 511), 9)
    IN  mem_write(m, ToUint16(m.reg[R_PC] + pc_offset), m.reg[DR(ins)])

\* sti
sti(m, ins) ==
    LET pc_offset == sign_extend(BitAnd(ins, 511), 9)
        p == mem_read(m, ToUint16(m.reg[R_PC] + pc_offset))
    IN  mem_write(p, p.val, p.reg[DR(ins)])

\* str
str(m, ins) ==
    LET offset == sign_extend(BitAnd(ins, 63), 6)
    IN  mem_write(m, ToUint16(m.reg[SR1(ins)] + offset), m.reg[DR(ins)])

(***************************************************************************)
(* The trap routines.                                                      *)
(***************************************************************************)
\* putc(c, stdout): the byte written is c converted to unsigned char
putc(m, c) == [m EXCEPT !.out = Append(@, c % 256)]

\* the conversion of an int to char, which the build makes signed or unsigned
ToChar(m, c) == IF m.char_signed THEN ((c + 128) % 256) - 128 ELSE c % 256

\* the loop of trap_puts (packed = FALSE) and trap_putsp (packed = TRUE) from
\* memory + i on: it reads cell after cell until one holds zero.  Only the
\* first cell behind the array is modelled; a scan that passes it ends there.
RECURSIVE scan(_, _, _)
scan(m, i, packed) ==
    IF i > UINT16_MAX
    THEN [m EXCEPT !.acc = Append(@, Access("scan", i, 0, FALSE, m, m))]
    ELSE LET c == Cell(m, i)
             seen == [m EXCEPT !.acc = Append(@, Access("scan", i, c, FALSE, m, m))]
             char1 == ToChar(m, IF packed THEN BitAnd(c, 255) ELSE c)
             char2 == ToChar(m, ShiftRight(c, 8))
             first == putc(seen, char1)
         IN  IF c = 0 THEN seen
             ELSE scan(IF packed /\ char2 # 0 THEN putc(first, char2) ELSE first,
                       i + 1, packed)

\* trap_puts
trap_puts(m) == scan(m, m.reg[R0], FALSE)

\* trap_putsp
trap_putsp(m) == scan(m, m.reg[R0], TRUE)

\* trap_getc setting the condition flags from the character it read
trap_getc_sets_flags(m) ==
    LET g == getchar(m)
    IN  update_flags([g EXCEPT !.reg[R0] = ToUint16(g.val)], R0)

\* trap_getc
trap_getc(m) ==
    LET g == getchar(m)
    IN  [g EXCEPT !.reg[R0] = ToUint16(g.val)]

\* trap_out
trap_out(m) == putc(m, ToChar(m, m.reg[R0]))

\* the prompt of trap_in: "Digite um caractere: "
Prompt == << 68, 105, 103, 105, 116, 101, 32, 117, 109, 32, 99, 97, 114, 97, 99, 116, 101, 114, 101, 58, 32 >>

\* trap_in
trap_in(m) ==
    LET g == getchar([m EXCEPT !.out = @ \o Prompt])
        char_ == ToChar(m, g.val)
    IN  [putc(g, char_) EXCEPT !.reg[R0] = ToUint16(char_)]

\* halt: its parameter holds the address of trap's own parameter `running`,
\* so the store of false goes to that parameter (it becomes a null pointer)
\* and main's flag is not written
halt(m) ==
    [m EXCEPT !.out = @ \o << 72, 65, 76, 84, 10 >>, !.trap_running = "null"]

\* trap: its parameter `running` holds the address of main's flag
trap(m, ins) ==
    LET called == [m EXCEPT !.trap_running = "&main.running"]
        code == BitAnd(ins, 255)
    IN  CASE code = TRAP_GETC -> trap_getc(called)
          [] code = TRAP_OUT -> trap_out(called)
          [] code = TRAP_PUTS -> trap_puts(called)
          [] code = TRAP_IN -> trap_in(called)
          [] code = TRAP_PUTSP -> trap_putsp(called)
          [] code = TRAP_HALT -> halt(called)
          [] OTHER -> called

(***************************************************************************)
(* The record of what was written where: the accesses of a cycle replayed  *)
(* on a map from addresses to the value last written (0 where none was).   *)
(***************************************************************************)
Written(w, a) == IF a \in DOMAIN w THEN w[a] ELSE 0

Store(w, a, v) ==
    IF v = 0 THEN [x \in DOMAIN w \ {a} |-> w[x]]
    ELSE [x \in DOMAIN w \cup {a} |-> IF x = a THEN v ELSE w[x]]

\* a write stores its value at its address; a read of MR_KBSR stores what the
\* poll put in the two keyboard cells; other reads store nothing
Record(w, e) ==
    IF e.op = "write" THEN Store(w, e.index, e.val)
    ELSE IF e.op = "read" /\ e.index = MR_KBSR
         THEN Store(Store(w, MR_KBSR, e.kbsr1), MR_KBDR, e.kbdr1)
         ELSE w

RECURSIVE Replay(_, _)
Replay(w, log) == IF log = <<>> THEN w ELSE Replay(Record(w, Head(log)), Tail(log))

(***************************************************************************)
(* Start-up: main before the loop.                                         *)
(***************************************************************************)
Min(a, b) == IF a < b THEN a ELSE b

\* read_image_file on a little-endian host: fread leaves each big-endian word
\* of the file byte-swapped in the uint16_t it fills, and swap16 turns it round
read_image_file(mem, file) ==
    LET origin == swap16(swap16(file.origin))
        max_read == ToUint16(UINT16_MAX - origin)
        read == Min(Len(file.words), max_read)
        loaded == { origin + k - 1 : k \in { j \in 1..read : swap16(swap16(file.words[j])) # 0 } }
        cleared == { origin + k - 1 : k \in 1..read }
    IN  [a \in (DOMAIN mem \ cleared) \cup loaded |->
            IF a \in cleared THEN swap16(swap16(file.words[a - origin + 1])) ELSE mem[a]]

\* no call of sign_extend on its own
NoProbe == [x |-> 0, num_bits |-> 0, result |-> 0, returned |-> FALSE]

Init ==
    /\ memory = <<>>
    /\ registers = [r \in 0..(R_COUNT - 1) |-> 0]
    /\ adjacent \in BOOLEAN
    /\ beyond = 0
    /\ running = FALSE
    /\ instruction = 0
    /\ pc = "main"
    /\ exit_code = 0
    /\ argv \in CommandLines
    /\ argi = 1
    /\ input = <<>>
    /\ eof = FALSE
    /\ tio = Cooked
    /\ original_tio = ZeroTio
    /\ handler = FALSE
    /\ accesses = <<>>
    /\ output = <<>>
    /\ steps = 0
    /\ before = registers
    /\ memory_before = memory
    /\ written_before = <<>>
    /\ consumed = 0
    /\ probe = NoProbe

\* main, argc < 2: the usage message and exit(2)
Usage ==
    /\ pc = "main"
    /\ Len(argv) + 1 < 2
    /\ pc' = "exited"
    /\ exit_code' = 2
    /\ UNCHANGED << memory, registers, adjacent, beyond, running, instruction,
                    argv, argi, input, eof, tio, original_tio, handler, accesses, output,
                    steps, before,
                    memory_before, consumed, written_before, probe >>

\* main, one round of the loading loop with read_image returning 1
LoadImage ==
    /\ pc = "main"
    /\ argi <= Len(argv)
    /\ ~argv[argi].missing
    /\ memory' = read_image_file(memory, argv[argi])
    /\ written_before' = read_image_file(written_before, argv[argi])
    /\ argi' = argi + 1
    /\ UNCHANGED << registers, adjacent, beyond, running, instruction, pc,
                    exit_code, argv, input, eof, tio, original_tio, handler, accesses,
                    output, steps, before, memory_before, consumed, probe >>

\* LoadFail undoing the images loaded so far
LoadFail_rolls_back ==
    /\ pc = "main"
    /\ argi <= Len(argv)
    /\ argv[argi].missing
    /\ pc' = "exited"
    /\ exit_code' = 1
    /\ memory' = <<>>
    /\ UNCHANGED << registers, adjacent, beyond, running, instruction,
                    argv, argi, input, eof, tio, original_tio, handler, accesses, output,
                    steps, before, memory_before, consumed, written_before, probe >>

\* main, one round of the loading loop with read_image returning 0: exit(1)
LoadFail ==
    /\ pc = "main"
    /\ argi <= Len(argv)
    /\ argv[argi].missing
    /\ pc' = "exited"
    /\ exit_code' = 1
    /\ UNCHANGED << memory, registers, adjacent, beyond, running, instruction,
                    argv, argi, input, eof, tio, original_tio, handler, accesses, output,
                    steps, before,
                    memory_before, consumed, written_before, probe >>

\* main: signal(SIGINT, handle_interrupt)
InstallHandler ==
    /\ pc = "main"
    /\ Len(argv) + 1 >= 2
    /\ argi > Len(argv)
    /\ handler' = TRUE
    /\ pc' = "raw"
    /\ UNCHANGED << memory, registers, adjacent, beyond, running, instruction,
                    exit_code, argv, argi, input, eof, tio, original_tio, accesses, output,
                    steps, before,
                    memory_before, consumed, written_before, probe >>

\* StartLoop without the assignment registers[R_PC] = PC_START
StartLoop_no_pc ==
    /\ pc = "raw"
    /\ original_tio' = tio
    /\ tio' = [tio EXCEPT !.icanon = FALSE, !.echo = FALSE]
    /\ running' = TRUE
    /\ pc' = "loop"
    /\ UNCHANGED << memory, registers, adjacent, beyond, instruction, exit_code, argv,
                    argi, input, eof, handler, accesses, output, steps, before,
                    memory_before, consumed, written_before, probe >>

\* main: disable_input_buffering(), registers[R_PC] = PC_START, running = true,
\* and the first test of the loop condition
StartLoop ==
    /\ pc = "raw"
    /\ original_tio' = tio
    /\ tio' = [tio EXCEPT !.icanon = FALSE, !.echo = FALSE]
    /\ registers' = [registers EXCEPT ![R_PC] = PC_START]
    /\ running' = TRUE
    /\ pc' = "loop"
    /\ UNCHANGED << memory, adjacent, beyond, instruction, exit_code, argv,
                    argi, input, eof, handler, accesses, output, steps, before,
                    memory_before, consumed, written_before, probe >>

(***************************************************************************)
(* The interpreter loop: one action per opcode handler.  Each is one whole *)
(* cycle: the fetch with its increment of the program counter, the handler *)
(* and the test of the loop condition that follows it.                     *)
(***************************************************************************)
\* Fetch with a program counter that does not wrap round at 16 bits
Fetch_no_wrap ==
    LET bumped == [Machine EXCEPT !.reg[R_PC] = @ + 1]
    IN  mem_read(bumped, registers[R_PC])

\* instruction = mem_read(registers[R_PC]++): the machine after the fetch,
\* the fetched word in val
Fetch ==
    LET bumped == [Machine EXCEPT !.reg[R_PC] = ToUint16(@ + 1)]
    IN  mem_read(bumped, registers[R_PC])

Opcode(ins) == ShiftRight(ins, 12)

\* the state after a cycle that fetched ins and left the machine m
Commit(m, ins) ==
    /\ ~m.blocked
    /\ memory' = m.mem
    /\ registers' = m.reg
    /\ beyond' = m.beyond
    /\ input' = m.inp
    /\ running' = m.main_running
    /\ instruction' = ins
    /\ accesses' = m.acc
    /\ output' = m.out
    /\ steps' = steps + 1
    /\ before' = registers
    /\ memory_before' = memory
    /\ written_before' = Replay(written_before, accesses)
    /\ consumed' = Len(input) - Len(m.inp)
    /\ pc' = IF m.main_running THEN "loop" ELSE "exited"
    /\ exit_code' = 0
    /\ UNCHANGED << adjacent, argv, argi, eof, tio, original_tio, handler, probe >>

\* the loop is at its fetch and the word it fetches has this opcode
Fetches(f, opcode) ==
    /\ pc = "loop"
    /\ steps < MaxSteps
    /\ Opcode(f.val) = opcode

\* case OP_ADD
Add ==
    LET f == Fetch
    IN  /\ Fetches(f, OP_ADD)
        /\ Commit(add(f, f.val), f.val)

\* case OP_AND
And ==
    LET f == Fetch
    IN  /\ Fetches(f, OP_AND)
        /\ Commit(and(f, f.val), f.val)

\* case OP_NOT
Not ==
    LET f == Fetch
    IN  /\ Fetches(f, OP_NOT)
        /\ Commit(not(f, f.val), f.val)

\* case OP_BR
Br ==
    LET f == Fetch
    IN  /\ Fetches(f, OP_BR)
        /\ Commit(br(f, f.val), f.val)

\* case OP_JMP
Jmp ==
    LET f == Fetch
    IN  /\ Fetches(f, OP_JMP)
        /\ Commit(jmp(f, f.val), f.val)

\* case OP_JSR
Jsr ==
    LET f == Fetch
    IN  /\ Fetches(f, OP_JSR)
        /\ Commit(jsr(f, f.val), f.val)

\* case OP_LD
Ld ==
    LET f == Fetch
    IN  /\ Fetches(f, OP_LD)
        /\ Commit(ld(f, f.val), f.val)

\* case OP_LDI
Ldi ==
    LET f == Fetch
    IN  /\ Fetches(f, OP_LDI)
        /\ Commit(ldi(f, f.val), f.val)

\* case OP_LDR
Ldr ==
    LET f == Fetch
    IN  /\ Fetches(f, OP_LDR)
        /\ Commit(ldr(f, f.val), f.val)

\* case OP_LEA
Lea ==
    LET f == Fetch
    IN  /\ Fetches(f, OP_LEA)
        /\ Commit(lea(f, f.val), f.val)

\* case OP_ST
St ==
    LET f == Fetch
    IN  /\ Fetches(f, OP_ST)
        /\ Commit(st(f, f.val), f.val)

\* case OP_STI
Sti ==
    LET f == Fetch
    IN  /\ Fetches(f, OP_STI)
        /\ Commit(sti(f, f.val), f.val)

\* case OP_STR
Str ==
    LET f == Fetch
    IN  /\ Fetches(f, OP_STR)
        /\ Commit(str(f, f.val), f.val)

\* case OP_TRAP
Trap ==
    LET f == Fetch
    IN  /\ Fetches(f, OP_TRAP)
        /\ \E signed \in BOOLEAN : Commit(trap([f EXCEPT !.char_signed = signed], f.val), f.val)

\* Abort with the reserved opcodes falling out of the switch: the loop goes on
Abort_falls_through ==
    LET f == Fetch
    IN  /\ pc = "loop"
        /\ steps < MaxSteps
        /\ Opcode(f.val) \in { OP_RES, OP_RTI }
        /\ memory' = f.mem
        /\ registers' = f.reg
        /\ beyond' = f.beyond
        /\ input' = f.inp
        /\ instruction' = f.val
        /\ accesses' = f.acc
        /\ output' = <<>>
        /\ steps' = steps + 1
        /\ before' = registers
        /\ memory_before' = memory
        /\ written_before' = Replay(written_before, accesses)
        /\ consumed' = Len(input) - Len(f.inp)
        /\ pc' = "loop"
        /\ UNCHANGED << adjacent, running, exit_code, argv, argi, eof, tio,
                        original_tio, handler, probe >>

\* OP_RES, OP_RTI: abort()
Abort ==
    LET f == Fetch
    IN  /\ pc = "loop"
        /\ steps < MaxSteps
        /\ Opcode(f.val) \in { OP_RES, OP_RTI }
        /\ memory' = f.mem
        /\ registers' = f.reg
        /\ beyond' = f.beyond
        /\ input' = f.inp
        /\ instruction' = f.val
        /\ accesses' = f.acc
        /\ output' = <<>>
        /\ steps' = steps + 1
        /\ before' = registers
        /\ memory_before' = memory
        /\ written_before' = Replay(written_before, accesses)
        /\ consumed' = Len(input) - Len(f.inp)
        /\ pc' = "aborted"
        /\ UNCHANGED << adjacent, running, exit_code, argv, argi, eof, tio,
                        original_tio, handler, probe >>

(***************************************************************************)
(* The environment: the keyboard and the interrupt signal.                 *)
(***************************************************************************)
\* switch (opcode): the handler the fetched word selects
Execute(f) ==
    CASE Opcode(f.val) = OP_ADD -> add(f, f.val)
      [] Opcode(f.val) = OP_AND -> and(f, f.val)
      [] Opcode(f.val) = OP_NOT -> not(f, f.val)
      [] Opcode(f.val) = OP_BR -> br(f, f.val)
      [] Opcode(f.val) = OP_JMP -> jmp(f, f.val)
      [] Opcode(f.val) = OP_JSR -> jsr(f, f.val)
      [] Opcode(f.val) = OP_LD -> ld(f, f.val)
      [] Opcode(f.val) = OP_LDI -> ldi(f, f.val)
      [] Opcode(f.val) = OP_LDR -> ldr(f, f.val)
      [] Opcode(f.val) = OP_LEA -> lea(f, f.val)
      [] Opcode(f.val) = OP_ST -> st(f, f.val)
      [] Opcode(f.val) = OP_STI -> sti(f, f.val)
      [] Opcode(f.val) = OP_STR -> str(f, f.val)
      [] Opcode(f.val) = OP_TRAP -> trap(f, f.val)
      [] OTHER -> f

\* the next cycle looks at standard input (check_key or getchar).  What the
\* keyboard does matters to the program only then, so the model lets a
\* character arrive, or the input end, right before such a cycle.
LooksAtInput == pc = "loop" /\ steps < MaxSteps /\ Execute(Fetch).polled

\* a character arrives on standard input
KeyPress ==
    /\ LooksAtInput
    /\ ~eof
    /\ Len(input) < MaxInput
    /\ \E c \in Chars : input' = Append(input, c)
    /\ UNCHANGED << memory, registers, adjacent, beyond, running, instruction,
                    pc, exit_code, argv, argi, eof, tio, original_tio, handler, accesses,
                    output, steps, before,
                    memory_before, consumed, written_before, probe >>

\* standard input reaches its end (the program cannot tell an end that comes
\* while characters still wait from one that comes when the last is read)
CloseInput ==
    /\ LooksAtInput
    /\ ~eof
    /\ input = <<>>
    /\ eof' = TRUE
    /\ UNCHANGED << memory, registers, adjacent, beyond, running, instruction,
                    pc, exit_code, argv, argi, input, tio, original_tio, handler, accesses,
                    output, steps, before,
                    memory_before, consumed, written_before, probe >>

\* SIGINT with the handler installed: handle_interrupt restores the terminal
\* from original_tio and calls exit(-2), which the parent sees as status 254
Interrupt ==
    /\ handler
    /\ pc \in { "raw", "loop" }
    /\ tio' = original_tio
    /\ pc' = "exited"
    /\ exit_code' = (-2) % 256
    /\ UNCHANGED << memory, registers, adjacent, beyond, running, instruction,
                    argv, argi, input, eof, original_tio, handler, accesses,
                    output, steps, before,
                    memory_before, consumed, written_before, probe >>

Next ==
    \/ Usage \/ LoadImage \/ LoadFail \/ InstallHandler \/ StartLoop
    \/ Add \/ And \/ Not \/ Br \/ Jmp \/ Jsr \/ Ld \/ Ldi \/ Ldr \/ Lea \/ St \/ Sti \/ Str
    \/ Trap \/ Abort
    \/ KeyPress \/ CloseInput \/ Interrupt

Spec == Init /\ [][Next]_vars

(***************************************************************************)
(* sign_extend on its own: every bit count 1..16 with every value whose    *)
(* bits above the count are zero.                                          *)
(***************************************************************************)
InitSignExtend ==
    /\ memory = <<>>
    /\ registers = [r \in 0..(R_COUNT - 1) |-> 0]
    /\ adjacent = FALSE
    /\ beyond = 0
    /\ running = FALSE
    /\ instruction = 0
    /\ pc = "sign_extend"
    /\ exit_code = 0
    /\ argv = <<>>
    /\ argi = 1
    /\ input = <<>>
    /\ eof = FALSE
    /\ tio = Cooked
    /\ original_tio = ZeroTio
    /\ handler = FALSE
    /\ accesses = <<>>
    /\ output = <<>>
    /\ steps = 0
    /\ before = registers
    /\ memory_before = memory
    /\ written_before = <<>>
    /\ consumed = 0
    /\ \E n \in 1..16 : \E x \in 0..(Pow2(n) - 1) :
          probe = [x |-> x, num_bits |-> n, result |-> 0, returned |-> FALSE]

\* the call sign_extend(probe.x, probe.num_bits) returns
SignExtendCall ==
    /\ pc = "sign_extend"
    /\ ~probe.returned
    /\ probe' = [probe EXCEPT !.result = sign_extend(probe.x, probe.num_bits),
                              !.returned = TRUE]
    /\ UNCHANGED << memory, registers, adjacent, beyond, running, instruction, pc,
                    exit_code, argv, argi, input, eof, tio, original_tio, handler,
                    accesses, output, steps, before,
                    memory_before, consumed, written_before >>

SpecSignExtend == InitSignExtend /\ [][SignExtendCall]_vars

(***************************************************************************)
(* What the properties below are stated with.                              *)
(***************************************************************************)
\* a cycle of the loop has run: instruction, before, memory_before, accesses
\* and output describe the last one
Cycled == steps > 0

\* the program counter right after the last cycle's fetch
PCAfterFetch == (before[R_PC] + 1) % 65536

\* the low n bits x read as an n-bit two's-complement number
Signed(x, n) == IF x >= Pow2(n - 1) THEN x - Pow2(n) ELSE x

\* bit k of v
Bit(v, k) == (v \div Pow2(k)) % 2

\* the flag that belongs to a 16-bit value
FlagOf(v) == IF v = 0 THEN FLG_ZRO ELSE IF v >= 32768 THEN FLG_NEG ELSE FLG_POS

\* the fields of the last fetched instruction, read off its digits
DestField == (instruction \div 512) % 8
Src1Field == (instruction \div 64) % 8
Src2Field == instruction % 8
TrapVector == instruction % 256
LastOp == instruction \div 4096

\* the accesses of the last cycle after its fetch
DataAccesses == SubSeq(accesses, 2, Len(accesses))

(***************************************************************************)
(* Properties.                                                             *)
(***************************************************************************)

\* C1: once a cycle has executed TRAP with low byte 0x25 (HALT), the flag of
\* the loop is cleared and the process has ended normally with exit code 0,
\* so no further instruction is fetched.
C1_HaltEndsTheLoop ==
    (Cycled /\ LastOp = OP_TRAP /\ TrapVector = TRAP_HALT)
        => (~running /\ pc = "exited" /\ exit_code = 0)

\* C2: from the first fetch onward the condition register holds exactly one of
\* FLG_POS, FLG_ZRO, FLG_NEG.
C2_ExactlyOneFlag ==
    (pc = "loop" \/ Cycled) => registers[R_COND] \in { FLG_POS, FLG_ZRO, FLG_NEG }

\* the opcodes whose handlers call update_flags on the register they write
FlagSetters == { OP_ADD, OP_AND, OP_NOT, OP_LD, OP_LDI, OP_LDR, OP_LEA }

\* the last cycle was TRAP GETC or TRAP IN
ReadCharTrap == LastOp = OP_TRAP /\ TrapVector \in { TRAP_GETC, TRAP_IN }

\* C3 (as stated): after every instruction that writes a general-purpose
\* register (ADD, AND, NOT, LD, LDI, LDR, LEA, JSR/JSRR writing R7, TRAP GETC
\* and TRAP IN writing R0) the condition register is the flag of the value
\* written.
C3_FlagsAfterEveryRegisterWrite ==
    /\ (Cycled /\ LastOp \in FlagSetters)
          => registers[R_COND] = FlagOf(registers[DestField])
    /\ (Cycled /\ LastOp = OP_JSR) => registers[R_COND] = FlagOf(registers[R7])
    /\ (Cycled /\ ReadCharTrap) => registers[R_COND] = FlagOf(registers[R0])

\* C3 (amended): after ADD, AND, NOT, LD, LDI, LDR and LEA the condition
\* register is ZERO iff the value written is 0, NEGATIVE iff its bit 15 is set,
\* POSITIVE otherwise; JSR/JSRR, TRAP GETC and TRAP IN write their register and
\* leave the condition register as it was.
C3_FlagsAfterResultWrite ==
    /\ (Cycled /\ LastOp \in FlagSetters)
          => registers[R_COND] = FlagOf(registers[DestField])
    /\ (Cycled /\ (LastOp = OP_JSR \/ ReadCharTrap))
          => registers[R_COND] = before[R_COND]

\* C3 witness: a JSR/JSRR has written a positive R7 while the condition
\* register stays NEGATIVE from the instruction before it.
C3_Witness ==
    /\ Cycled /\ LastOp = OP_JSR
    /\ registers[R7] = PCAfterFetch /\ registers[R7] < 32768
    /\ registers[R_COND] = FLG_NEG

\* C4: every memory access of a cycle (the fetch, mem_read, mem_write, the
\* scans of the string traps), for any 16-bit address, indexes a cell inside
\* the memory array.
C4_AccessesInsideMemory ==
    \A k \in 1..Len(accesses) : accesses[k].index \in 0..(MemoryCells - 1)

\* C5: for every bit count n in 1..16 and every x whose bits n..15 are zero,
\* sign_extend(x, n) is the 16-bit two's-complement encoding of x read as an
\* n-bit signed integer: bits n..15 of the result equal bit n-1 of x, bits
\* 0..n-1 are those of x, and for n = 16 the result is x.
C5_SignExtend ==
    probe.returned =>
        LET x == probe.x
            n == probe.num_bits
            r == probe.result
        IN  /\ r \in Word
            /\ r = Signed(x, n) % 65536
            /\ \A k \in n..15 : Bit(r, k) = Bit(x, n - 1)
            /\ r % Pow2(n) = x
            /\ (n = 16 => r = x)

\* C5 witness: the 5-bit value 11111 has been extended to 0xFFFF.
C5_Witness ==
    probe.returned /\ probe.num_bits = 5 /\ probe.x = 31 /\ probe.result = 65535

\* the reads of MR_KBSR among the accesses of the last cycle
StatusReads ==
    { k \in 1..Len(accesses) : accesses[k].op = "read" /\ accesses[k].index = MR_KBSR }

\* a read of MR_KBSR that found a character waiting: status 0x8000, the
\* character in the data cell, that one character consumed, 0x8000 returned
TookCharacter(e) ==
    /\ e.kbsr1 = 32768 /\ e.val = 32768
    /\ e.kbdr1 = Head(e.in0)
    /\ e.in1 = Tail(e.in0)

\* a read of MR_KBSR that found nothing: status 0, 0 returned, the data cell
\* and the input queue as they were
FoundNothing(e) ==
    /\ e.kbsr1 = 0 /\ e.val = 0
    /\ e.kbdr1 = e.kbdr0
    /\ e.in1 = e.in0

C7_LinkRegister ==
    (Cycled /\ LastOp = OP_JSR) =>
        /\ registers[R7] = PCAfterFetch
        /\ (Bit(instruction, 11) = 0 /\ Src1Field = R7) => registers[R_PC] = PCAfterFetch

\* C7 witness: a JSRR (mode bit clear) has jumped away from the following
\* instruction and left its address in R7.
C7_Witness ==
    /\ Cycled /\ LastOp = OP_JSR /\ Bit(instruction, 11) = 0
    /\ registers[R7] = PCAfterFetch
    /\ registers[R_PC] # PCAfterFetch

\* PC + offset9 of the last instruction
PCRelative == (PCAfterFetch + Signed(instruction % 512, 9)) % 65536

\* C8: after the fetch LDI and STI make exactly two accesses, a read at
\* PC + offset9 and then the read (LDI) or write (STI) of the cell that read
\* named; LD and ST make exactly one, at PC + offset9.
C8_AccessCounts ==
    LET a == DataAccesses
    IN  /\ (Cycled /\ LastOp \in { OP_LDI, OP_STI }) =>
              /\ Len(a) = 2
              /\ a[1].op = "read" /\ a[1].index = PCRelative
              /\ a[2].op = (IF LastOp = OP_LDI THEN "read" ELSE "write")
              /\ a[2].index = a[1].val
        /\ (Cycled /\ LastOp \in { OP_LD, OP_ST }) =>
              /\ Len(a) = 1
              /\ a[1].op = (IF LastOp = OP_LD THEN "read" ELSE "write")
              /\ a[1].index = PCRelative

\* C8 witness: an STI has read its pointer and written through it to another cell.
C8_Witness ==
    /\ Cycled /\ LastOp = OP_STI /\ Len(DataAccesses) = 2
    /\ DataAccesses[2].op = "write"
    /\ DataAccesses[2].index # DataAccesses[1].index

\* the second operand of the last ADD/AND: the sign-extended imm5 when bit 5
\* is set, else the register bits 0..2 select, as the cycle found it
SecondOperand ==
    IF Bit(instruction, 5) = 1 THEN Signed(instruction % 32, 5) % 65536
    ELSE before[Src2Field]

\* the program ADD R1,R0,#5 ; ADD R1,R1,#-1 loaded at PC_START
AddProgram == [origin |-> PC_START, words |-> << 4645, 4735 >>, missing |-> FALSE]

\* C9: ADD stores (src1 + operand) mod 2^16 and AND stores src1 & operand in
\* the destination register, the operand being the sign-extended imm5 when
\* bit 5 is set and the register of bits 0..2 otherwise, and the condition
\* register is then the flag of the stored value; ADD R1,R0,#5 followed by
\* ADD R1,R1,#-1 leaves R1 = 4 and the condition register POSITIVE.
C9_AddAnd ==
    /\ (Cycled /\ LastOp = OP_ADD) =>
          /\ registers[DestField] = (before[Src1Field] + SecondOperand) % 65536
          /\ registers[R_COND] = FlagOf(registers[DestField])
    /\ (Cycled /\ LastOp = OP_AND) =>
          /\ \A k \in 0..15 :
                Bit(registers[DestField], k) = Bit(before[Src1Field], k) * Bit(SecondOperand, k)
          /\ registers[R_COND] = FlagOf(registers[DestField])
    /\ (argv = << AddProgram >> /\ steps = 2) =>
          /\ registers[1] = 4
          /\ registers[R_COND] = FLG_POS

\* C9 witness: the second instruction of ADD R1,R0,#5 ; ADD R1,R1,#-1 has run.
C9_Witness ==
    /\ argv = << AddProgram >> /\ steps = 2
    /\ instruction = 4735 /\ before[1] = 5 /\ registers[1] = 4

\* C10 (as stated): when the loop starts R0..R7 and the condition register are
\* zero and the program counter is the origin of the loaded image.
C10_StartAtImageOrigin ==
    (pc = "loop" /\ steps = 0) =>
        /\ \A r \in (0..R7) \cup { R_COND } : registers[r] = 0
        /\ registers[R_PC] = argv[Len(argv)].origin

\* C10 (amended): when the loop starts R0..R7 and the condition register are
\* zero and the program counter is PC_START (0x3000), whatever origin the
\* loaded image names.
C10_StartAtDefault ==
    (pc = "loop" /\ steps = 0) =>
        /\ \A r \in (0..R7) \cup { R_COND } : registers[r] = 0
        /\ registers[R_PC] = PC_START

\* C10 witness: the loop starts after loading an image whose origin is not PC_START.
C10_Witness ==
    /\ pc = "loop" /\ steps = 0
    /\ argv[1].origin # PC_START /\ Len(argv[1].words) > 0
    /\ registers[R_PC] = PC_START

\* C11: whenever the process ends through the interrupt handler (exit status
\* 254, the low byte of -2), the terminal configuration at exit is the one the
\* terminal had when the process started, wherever the interrupt arrived once
\* the handler was installed, also between installing the handler and
\* switching the terminal to raw mode.
C11_InterruptRestoresTerminal ==
    (pc = "exited" /\ handler /\ exit_code = (-2) % 256) => tio = Cooked

\* the memory cells whose content differs between two memories
Changed(m0, m1) ==
    { a \in DOMAIN m0 \cup DOMAIN m1 :
        (IF a \in DOMAIN m0 THEN m0[a] ELSE 0) # (IF a \in DOMAIN m1 THEN m1[a] ELSE 0) }

\* the last cycle fetched a reserved opcode
Reserved == Cycled /\ LastOp \in { OP_RTI, OP_RES }

\* C12 (as stated): when the fetched word selects a reserved opcode (RTI, RES)
\* the process ends abnormally in that cycle, and apart from the program
\* counter increment of the fetch no register and no memory cell has changed.
C12_ReservedOpcodeChangesNothing ==
    Reserved =>
        /\ pc = "aborted"
        /\ registers = [before EXCEPT ![R_PC] = PCAfterFetch]
        /\ Changed(memory_before, memory) = {}

\* C12 (amended): as stated, except that when the word was fetched from the
\* keyboard-status address the fetch has polled the keyboard like any read
\* of that address: the status and data cells may have changed (no other
\* cell), and at most the one character taken has left the input.
C12_ReservedOpcodeAborts ==
    Reserved =>
        /\ pc = "aborted"
        /\ registers = [before EXCEPT ![R_PC] = PCAfterFetch]
        /\ IF before[R_PC] = MR_KBSR
           THEN /\ Changed(memory_before, memory) \subseteq { MR_KBSR, MR_KBDR }
                /\ consumed \in { 0, 1 }
           ELSE /\ Changed(memory_before, memory) = {}
                /\ consumed = 0

\* C12 witness: an RTI has ended the process after an instruction that set
\* R1 and the flags, with registers and memory as that instruction left them.
C12_Witness ==
    /\ Reserved /\ LastOp = OP_RTI /\ pc = "aborted"
    /\ before[R_PC] = PC_START + 1
    /\ registers[1] # 0 /\ registers[1] = before[1]
    /\ memory = memory_before

\* the arguments whose file cannot be opened
Missing == { j \in 1..Len(argv) : argv[j].missing }

\* the first of them
FirstMissing == CHOOSE j \in Missing : \A k \in Missing : j <= k

\* no instruction has run, the terminal is as it was, no handler is installed
NothingRan ==
    /\ steps = 0 /\ accesses = <<>>
    /\ registers = [r \in 0..(R_COUNT - 1) |-> 0]
    /\ tio = Cooked /\ ~handler

\* C13: with zero image paths the process exits with code 2 and no memory
\* cell written; when opening an image path fails it exits with code 1, no
\* instruction executed and the terminal mode unchanged, and the images of
\* the earlier arguments are still in memory (the images of the model's
\* command lines do not overlap, so each earlier word is in its cell).
C13_StartupErrors ==
    /\ (argv = <<>> /\ pc # "main") =>
          /\ pc = "exited" /\ exit_code = 2
          /\ memory = <<>> /\ NothingRan
    /\ (Missing # {} /\ (pc # "main" \/ argi = FirstMissing)) =>
          /\ pc \in { "main", "exited" }
          /\ pc = "exited" => exit_code = 1
          /\ NothingRan
          /\ \A j \in 1..(FirstMissing - 1) : \A n \in 1..Len(argv[j].words) :
                /\ argv[j].origin + n - 1 \in DOMAIN memory
                /\ memory[argv[j].origin + n - 1] = argv[j].words[n]
    /\ (pc = "exited" /\ steps = 0 /\ ~handler) =>
          exit_code = (IF argv = <<>> THEN 2 ELSE 1)

\* C13 witness: the second path could not be opened; the process has exited
\* with code 1 and the first image is in memory.
C13_Witness ==
    /\ pc = "exited" /\ exit_code = 1
    /\ Len(argv) = 2 /\ FirstMissing = 2
    /\ memory # <<>>

\* the cycle the loop is about to run: the machine after its fetch, and after
\* its handler
NextFetch == Fetch
NextCycle == Execute(NextFetch)

\* the word the loop is about to fetch is TRAP GETC or TRAP IN
NextReadsChar ==
    /\ Opcode(NextFetch.val) = OP_TRAP
    /\ BitAnd(NextFetch.val, 255) \in { TRAP_GETC, TRAP_IN }

\* C14 (as stated): no instruction blocks: whatever the input environment,
\* also with no character waiting and none arriving, the cycle the loop is
\* about to run (TRAP GETC, TRAP IN and reads of the keyboard-status address
\* included) completes without waiting.
C14_NoCycleBlocks ==
    pc = "loop" => ~NextCycle.blocked

\* C14 (amended): a cycle waits exactly when it is TRAP GETC or TRAP IN and
\* standard input is open with no character pending (it then waits until a
\* character arrives or the input ends); every other cycle, a read of the
\* keyboard-status address included, completes without waiting.
C14_OnlyCharacterTrapsWait ==
    pc = "loop" =>
        (NextCycle.blocked <=> (NextReadsChar /\ NextFetch.inp = <<>> /\ ~eof))

\* C14 witness: an LDI has read the keyboard-status address with standard
\* input open and nothing pending, and completed with status 0.
C14_Witness ==
    /\ Cycled /\ LastOp = OP_LDI /\ Len(accesses) = 3
    /\ accesses[3].index = MR_KBSR
    /\ accesses[3].in0 = <<>> /\ ~accesses[3].eof0
    /\ registers[DestField] = 0

\* what each address was last written with when access k of the last cycle began
WrittenAt(k) == Replay(written_before, SubSeq(accesses, 1, k - 1))

\* the accesses of the last cycle made by mem_read and by mem_write
Reads == { k \in 1..Len(accesses) : accesses[k].op = "read" }
Writes == { k \in 1..Len(accesses) : accesses[k].op = "write" }

\* C15: for every address other than the keyboard-status address (the
\* keyboard-data address included) a read returns the value most recently
\* written to that address, changes no memory cell and consumes no input; a
\* write to any address changes only that one cell: the cells a cycle leaves
\* changed are the ones it wrote (and the keyboard cells when it read the
\* status address), and a store instruction leaves every register but the
\* program counter as it was.
C15_PlainStorage ==
    Cycled =>
        /\ \A k \in Reads : accesses[k].index # MR_KBSR =>
              /\ accesses[k].val = Written(WrittenAt(k), accesses[k].index)
              /\ accesses[k].in1 = accesses[k].in0
        /\ Changed(memory_before, memory) \subseteq
              { accesses[k].index : k \in Writes }
                \cup (IF \E k \in Reads : accesses[k].index = MR_KBSR
                      THEN { MR_KBSR, MR_KBDR } ELSE {})
        /\ LastOp \in { OP_ST, OP_STI, OP_STR } =>
              registers = [before EXCEPT ![R_PC] = PCAfterFetch]

\* base register + offset6 of the last instruction
BaseRelative == (before[Src1Field] + Signed(instruction % 64, 6)) % 65536

\* the last instruction was a BR whose mask shares a flag with the condition
\* register as the cycle found it
BranchTaken ==
    \E k \in 0..2 : Bit(instruction, 9 + k) = 1 /\ Bit(before[R_COND], k) = 1

\* C16: each cycle fetches the word at the program counter it found and then
\* sets the program counter to that + 1 mod 2^16; BR when taken, LD, LDI, ST,
\* STI, LEA and JSR use (PC after the fetch + sign-extended offset) mod 2^16,
\* LDR and STR (base register + sign-extended offset6) mod 2^16; every
\* address computed and every program counter value is in 0..0xFFFF.
C16_AddressArithmetic ==
    Cycled =>
        /\ accesses[1].op = "read" /\ accesses[1].index = before[R_PC]
        /\ instruction = accesses[1].val
        /\ LastOp \notin { OP_BR, OP_JMP, OP_JSR } => registers[R_PC] = PCAfterFetch
        /\ LastOp = OP_BR =>
              registers[R_PC] = (IF BranchTaken THEN PCRelative ELSE PCAfterFetch)
        /\ (LastOp = OP_JSR /\ Bit(instruction, 11) = 1) =>
              registers[R_PC] = (PCAfterFetch + Signed(instruction % 2048, 11)) % 65536
        /\ LastOp \in { OP_LD, OP_LDI, OP_ST, OP_STI } => accesses[2].index = PCRelative
        /\ LastOp = OP_LEA => registers[DestField] = PCRelative
        /\ LastOp \in { OP_LDR, OP_STR } => accesses[2].index = BaseRelative
        /\ \A k \in Reads \cup Writes : accesses[k].index \in Word
        /\ \A r \in 0..R_PC : registers[r] \in Word

\* C16 witness: a LEA at 0xFFFE has computed 0xFFFF + 1 = 0, and the program
\* counter stands at 0xFFFF, about to wrap round with the next fetch.
C16_Witness ==
    /\ Cycled /\ LastOp = OP_LEA
    /\ before[R_PC] = 65534 /\ registers[R_PC] = 65535
    /\ registers[DestField] = 0

\* C16 witness of the fetch: a cycle has fetched at 0xFFFF and left the
\* program counter at 0.
C16_WitnessFetch ==
    Cycled /\ before[R_PC] = 65535 /\ registers[R_PC] = 0

\* the process has ended through handle_interrupt
Interrupted == pc = "exited" /\ handler /\ exit_code = (-2) % 256

\* the last cycle executed a TRAP
Trapped == Cycled /\ LastOp = OP_TRAP

\* C17: a TRAP changes neither the program counter (beyond the increment of
\* the fetch) nor R1..R7, the condition register or any memory cell; GETC and
\* IN change only R0; OUT, PUTS, PUTSP and HALT change no register; PUTS and
\* PUTSP take nothing from the keyboard and leave the device cells alone; a
\* TRAP whose low byte is outside 0x20..0x25 changes nothing, writes nothing
\* and the loop goes on with the next instruction (unless an interrupt ends
\* the process first).
C17_TrapFrame ==
    Trapped =>
        /\ registers[R_PC] = PCAfterFetch
        /\ \A r \in (1..R7) \cup { R_COND } : registers[r] = before[r]
        /\ Changed(memory_before, memory) = {}
        /\ TrapVector \notin { TRAP_GETC, TRAP_IN } => registers[R0] = before[R0]
        /\ TrapVector \in { TRAP_PUTS, TRAP_PUTSP } =>
              /\ consumed = 0
              /\ \A k \in 2..Len(accesses) : accesses[k].op = "scan"
        /\ TrapVector \notin TRAP_GETC..TRAP_HALT =>
              /\ consumed = 0 /\ output = <<>> /\ Len(accesses) = 1
              /\ running /\ (pc = "loop" \/ Interrupted)

\* C17 witness: a TRAP GETC has put the character 'A' in R0 after an
\* instruction that left the condition register NEGATIVE, which it still is.
C17_Witness ==
    /\ Trapped /\ TrapVector = TRAP_GETC
    /\ registers[R0] = 65 /\ before[R0] = 0
    /\ registers[R_COND] = FLG_NEG

\* the last cycle executed JSRR: the JSR opcode with bit 11 clear
Jsrr == Cycled /\ LastOp = OP_JSR /\ Bit(instruction, 11) = 0

\* C18 (as stated): after JSRR with any base register R0..R7, R7 included,
\* the program counter is the value the base register held when the
\* instruction was fetched, and R7 is the address of the instruction that
\* follows the JSRR.
C18_JsrrJumpsToOldBase ==
    Jsrr =>
        /\ registers[R_PC] = before[Src1Field]
        /\ registers[R7] = PCAfterFetch

\* C18 (amended): after JSRR R7 is the address of the instruction that
\* follows it; with a base register R0..R6 the program counter is the value
\* that register held when the instruction was fetched, and with base R7 it
\* is the address just saved in R7, the instruction following the JSRR.
C18_JsrrJump ==
    Jsrr =>
        /\ registers[R7] = PCAfterFetch
        /\ registers[R_PC] = (IF Src1Field = R7 THEN PCAfterFetch ELSE before[Src1Field])

\* C18 witness: a JSRR R7 found another address in R7 and went on with the
\* instruction that follows it.
C18_Witness ==
    /\ Jsrr /\ Src1Field = R7
    /\ before[R7] # PCAfterFetch
    /\ registers[R_PC] = PCAfterFetch /\ registers[R7] = PCAfterFetch

\* the last cycle executed TRAP PUTS or TRAP PUTSP
Printed == Trapped /\ TrapVector \in { TRAP_PUTS, TRAP_PUTSP }

\* the bytes a string trap writes for the cells of a log, in order
RECURSIVE Emitted(_, _)
Emitted(log, packed) ==
    IF log = <<>> THEN <<>>
    ELSE LET c == Head(log).val
             bytes == IF c = 0 THEN <<>>
                      ELSE IF packed /\ c \div 256 # 0 THEN << c % 256, c \div 256 >>
                      ELSE << c % 256 >>
         IN  bytes \o Emitted(Tail(log), packed)

\* C19: for every R0 and every memory content TRAP PUTS and TRAP PUTSP end
\* and read only cells inside memory: the scan starts at the cell R0 names,
\* goes up cell by cell, writes the characters of each non-zero cell (PUTS the
\* low byte, PUTSP the low byte and then the high byte when that is not zero)
\* and stops at the first zero cell, also when no zero cell lies between R0
\* and the highest address.
C19_StringScan ==
    Printed =>
        LET scans == DataAccesses
            n == Len(scans)
        IN  /\ n >= 1
            /\ scans[1].index = before[R0]
            /\ \A k \in 1..n :
                  /\ scans[k].op = "scan"
                  /\ scans[k].index = before[R0] + k - 1
                  /\ scans[k].index \in 0..(MemoryCells - 1)
                  /\ (scans[k].val = 0) <=> (k = n)
            /\ output = Emitted(scans, TrapVector = TRAP_PUTSP)

\* the condition mask (bits 9..11) of the last instruction
Mask == (instruction \div 512) % 8

\* C20: in every reachable state a BR whose mask is 111 is taken, the
\* program counter becoming (PC after the fetch + sign-extended offset9) mod
\* 2^16, and a BR whose mask is 000 is not taken; also when the BR is the
\* first instruction executed after startup.
C20_BranchMasks ==
    (Cycled /\ LastOp = OP_BR) =>
        /\ Mask = 7 => registers[R_PC] = PCRelative
        /\ Mask = 0 => registers[R_PC] = PCAfterFetch

====
